---- MODULE Spec2Model ----
(***************************************************************************)
(* Model of the technician app's real-time voice session client            *)
(* (class VoiceAgent, the tool registry functionMap and the workflow-state *)
(* endpoint the tool handlers write to).                                   *)
(*                                                                         *)
(* The client runs on one event loop.  Every action below is one run of    *)
(* the event loop from an entry point (a public method call, a DOM / RTC   *)
(* callback, a timer, the resumption of an async function after an await)  *)
(* up to the next await or the end of the callback.                        *)
(***************************************************************************)
EXTENDS Integers, Sequences, FiniteSets, TLC

\* ---------------------------------------------------------------- bounds
MaxConnect == 2     \* connect() invocations that get past the guard
MaxCalls   == 2     \* function calls the model issues
MaxEvents  == 3     \* other inbound control events and caller actions
MaxTimers  == 1     \* rate-limit cooldown timers pending at once
MaxArgLen  == 3     \* fragments accumulated in the argument buffer
MaxAudio   == 3     \* audio deltas the model streams

\* ------------------------------------------------------------- constants
Null == 0           \* a null handle / an undefined call_id

ConnIds == 1..MaxConnect
CallIds == 1..MaxCalls
AudioIds == 1..MaxAudio

VARIABLES
    \* fields of VoiceAgent
    peerConnection, dataChannel, mediaStream, audioContext,
    isActive, hasActiveResponse,
    functionCall, functionCallArgs, functionCallArgumentsBuffer,
    technicianId,
    \* browser objects created by connect(): the k-th invocation creates
    \* peer connection k, media stream k and data channel k
    pcState, msState, dcState, dcOwner, iceHandler,
    \* async invocations in flight
    connTask, handlers, timers,
    \* playAudioDelta invocations in flight, by arrival index, and the
    \* order in which source.start() was called
    audioTasks, played,
    \* backend clock record (workflow state of record)
    workflow,
    \* what the last step sent, emitted or threw
    out,
    \* configuration of the run and bookkeeping of the environment
    profile, faults, nEvents,
    \* observers
    respOutstanding, awaitingTurn,
    \* the argument fragments received for the call that is open, and the
    \* sessions in which the client has read the technician's status
    fragments, fetched,
    \* the connect() invocations that were in flight when disconnect() was
    \* called, while connect() has not been called again
    cancelled,
    \* what the server still owes the open session: the response.create
    \* requests it has not answered, and the responses it has announced
    \* and not ended
    asked, running

agentVars == <<peerConnection, dataChannel, mediaStream, audioContext,
               isActive, hasActiveResponse, functionCall, functionCallArgs,
               functionCallArgumentsBuffer, technicianId>>
rtcVars   == <<pcState, msState, dcState, dcOwner, iceHandler>>
taskVars  == <<connTask, handlers, timers>>
audioVars == <<audioTasks, played>>
envVars   == <<profile, faults, nEvents>>
obsVars   == <<respOutstanding, awaitingTurn, fragments, fetched, cancelled,
               asked, running>>
vars      == <<agentVars, rtcVars, taskVars, audioVars, workflow, out, envVars,
               obsVars>>

\* ------------------------------------------------------- output records
\* What a step sends on a data channel, emits to listeners or throws to its
\* caller.  For a function_call_output, `task` is the handleFunctionCall
\* invocation that sent it, `own` the call_id of the call that invocation
\* was started for and `session` the channel that call arrived on.
Rec(kind, ch, type, cid, body, task, own, session) ==
    [kind |-> kind, ch |-> ch, type |-> type, call_id |-> cid, body |-> body,
     task |-> task, own |-> own, session |-> session]
Plain(kind, ch, type) == Rec(kind, ch, type, Null, "", Null, Null, Null)
SendMsg(ch, type) == Plain("send", ch, type)
Emit(type)        == Plain("emit", Null, type)
Throw(type)       == Plain("throw", Null, type)
\* a public method was called / returned at its guard without doing anything
Call(type)        == Plain("call", Null, type)
Return(type)      == Plain("return", Null, type)
\* a transport callback of connection k ran
Event(k, type)    == Plain("event", k, type)
\* the response of a backend request reached the handler whose call
\* arrived on channel ch
Backend(ch, type) == Plain("backend", ch, type)
\* invocation `task` of handleFunctionCall entered its catch block with
\* an error of this message
Catch(task, msg)  == Rec("catch", Null, msg, Null, "", task, Null, Null)
\* the message handler received an event of this type on channel k; body
\* is what the handler reads of its payload
Received(k, type, body) == Rec("recv", k, type, Null, body, Null, Null, Null)
\* {type: "conversation.item.create", item: {type: "function_call_output",
\*  call_id, output}}
FunctionCallOutput(ch, cid, body, task, own, session) ==
    Rec("send", ch, "function_call_output", cid, body, task, own, session)

Sent(type)    == \E i \in 1..Len(out) : out[i].kind = "send" /\ out[i].type = type
Emitted(type) == \E i \in 1..Len(out) : out[i].kind = "emit" /\ out[i].type = type
Threw         == \E i \in 1..Len(out) : out[i].kind = "throw"
Called(type)  == \E i \in 1..Len(out) : out[i].kind = "call" /\ out[i].type = type
Returned(type) == \E i \in 1..Len(out) : out[i].kind = "return" /\ out[i].type = type

\* ------------------------------------------------------------- cleanup
\* The handles and browser objects cleanup() reads and writes.
Cur == [ms |-> mediaStream, dc |-> dataChannel, pc |-> peerConnection,
        ac |-> audioContext, active |-> isActive, har |-> hasActiveResponse,
        msS |-> msState, dcS |-> dcState, pcS |-> pcState]

SetFrom(r) ==
    /\ mediaStream' = r.ms
    /\ dataChannel' = r.dc
    /\ peerConnection' = r.pc
    /\ audioContext' = r.ac
    /\ isActive' = r.active
    /\ hasActiveResponse' = r.har
    /\ msState' = r.msS
    /\ dcState' = r.dcS
    /\ pcState' = r.pcS

\* Teardown steps of cleanup(), in program order.  A fault f > 0 means
\* that step f throws; f = 0 means no step throws.
StepTracks  == 1
StepChannel == 2
StepPeer    == 3
StepAudio   == 4
NoFault     == 0

\* step i was executed and returned normally under fault f
Ran(i, f) == f = NoFault \/ i < f

\* the faults that can happen in state s: a step can only throw if it runs
FaultsIn(s) ==
    {NoFault} \cup
    (IF faults
     THEN {f \in {StepTracks}  : s.ms # Null} \cup
          {f \in {StepChannel} : s.dc # Null} \cup
          {f \in {StepPeer}    : s.pc # Null} \cup
          {f \in {StepAudio}   : s.ac \notin {"null", "closed"}}
     ELSE {})

\* closing a peer connection closes the data channels created on it
ClosePeer(dcS, pc) ==
    [k \in ConnIds |-> IF dcOwner[k] = pc /\ dcS[k] \in {"connecting", "open"}
                       THEN "closed" ELSE dcS[k]]

cleanup(s, f) ==
    LET msS1 == IF s.ms # Null /\ Ran(StepTracks, f)
                THEN [s.msS EXCEPT ![s.ms] = "stopped"] ELSE s.msS
        dcS1 == IF s.dc # Null /\ Ran(StepChannel, f)
                THEN [s.dcS EXCEPT ![s.dc] = "closed"] ELSE s.dcS
        dcS2 == IF s.pc # Null /\ Ran(StepPeer, f)
                THEN ClosePeer(dcS1, s.pc) ELSE dcS1
        pcS1 == IF s.pc # Null /\ Ran(StepPeer, f)
                THEN [s.pcS EXCEPT ![s.pc] = "closed"] ELSE s.pcS
        ac1  == IF s.ac \notin {"null", "closed"} /\ Ran(StepAudio, f)
                THEN "closed" ELSE s.ac
    IN  IF f = NoFault
        THEN [ms |-> Null, dc |-> Null, pc |-> Null, ac |-> "null",
              active |-> FALSE, har |-> FALSE,
              msS |-> msS1, dcS |-> dcS2, pcS |-> pcS1]
        ELSE [s EXCEPT !.msS = msS1, !.dcS = dcS2, !.pcS = pcS1, !.ac = ac1]

\* handleDisconnect(): isActive = false; cleanup(); emit('disconnected')
handleDisconnect(s, f) ==
    [state |-> cleanup([s EXCEPT !.active = FALSE], f),
     out   |-> IF f = NoFault THEN <<Emit("disconnected")>>
               ELSE <<Throw("cleanup")>>]

\* ----------------------------------------------------------- observers
OpenChannels(dcS) == {k \in ConnIds : dcS[k] = "open"}

RECURSIVE AwaitFold(_, _)
AwaitFold(o, S) ==
    IF o = <<>> THEN S
    ELSE LET m == Head(o)
             S1 == IF m.kind = "send" /\ m.type = "function_call_output"
                   THEN S \cup {m.ch}
                   ELSE IF m.kind = "send" /\ m.type = "response.create"
                        THEN S \ {m.ch} ELSE S
         IN  AwaitFold(Tail(o), S1)

Requested(o) == {o[i].ch : i \in {j \in 1..Len(o) :
                     o[j].kind = "send" /\ o[j].type = "response.create"}}

\* the sessions whose handler received the technician's status
Fetched(o) == {o[i].ch : i \in {j \in 1..Len(o) :
                   o[j].kind = "backend" /\ o[j].type = "getTechnicianStatus"}}

\* what the step appended to the argument buffer
Appended == SubSeq(functionCallArgumentsBuffer',
                   Len(functionCallArgumentsBuffer) + 1,
                   Len(functionCallArgumentsBuffer'))

\* the connect() invocations that are awaiting
InFlight == {k \in ConnIds : connTask[k] \in {"token", "media", "sdp"}}

\* the step was a call of this public method
Invoked(o, type) ==
    \E i \in 1..Len(o) : o[i].kind = "call" /\ o[i].type = type

\* message.error.message of a server error event, as far as the handler
\* tells the messages apart
DuplicateResponse == "already has an active response"
\* the other messages: the server's refusal of a response.create, and an
\* error that is not about a response
ResponseRejected == "response rejected"
ErrorMessages == {DuplicateResponse, ResponseRejected, "other"}

\* the number of response.create messages in o
Asks(o) == Cardinality({i \in 1..Len(o) :
               o[i].kind = "send" /\ o[i].type = "response.create"})

\* the server answered a response.create with an error event
Denied(o) ==
    \E i \in 1..Len(o) : o[i].kind = "recv" /\ o[i].type = "error" /\
                          o[i].body = ResponseRejected

\* Records what the step did: o is what it sent, emitted or threw (op names
\* the entry point for the reader), arrived is the inbound event type (or
\* "") on channel k.
ObserveStep(o, op, arrived, k) ==
    /\ out' = o
    /\ respOutstanding' =
          (((respOutstanding \ (IF arrived = "response.done" THEN {k} ELSE {}))
              \cup (IF arrived = "response.created" THEN {k} ELSE {}))
              \cup Requested(o)) \cap OpenChannels(dcState')
    /\ awaitingTurn' = AwaitFold(o, awaitingTurn) \cap OpenChannels(dcState')
    /\ fragments' =
          IF OpenChannels(dcState') = {} THEN <<>>
          ELSE IF arrived \in {"response.function_call.started",
                               "response.function_call_arguments.done"}
               THEN <<>>
          ELSE IF arrived = "response.function_call_arguments.delta"
               THEN fragments \o Appended
          ELSE fragments
    /\ fetched' = (fetched \cup Fetched(o)) \cap OpenChannels(dcState')
    /\ cancelled' =
          IF Invoked(o, "disconnect") THEN InFlight
          ELSE IF Invoked(o, "connect") \/ Invoked(o, "start") THEN {}
          ELSE cancelled \cap InFlight
    /\ asked' =
          IF OpenChannels(dcState') = {} THEN 0
          ELSE IF \/ arrived = "response.created"
                  \/ Denied(o)
                  \/ (arrived = "response.done" /\ running = 0)
               THEN (IF asked + Asks(o) > 0 THEN asked + Asks(o) - 1 ELSE 0)
          ELSE asked + Asks(o)
    /\ running' =
          IF OpenChannels(dcState') = {} THEN 0
          ELSE IF arrived = "response.created" THEN running + 1
          ELSE IF arrived = "response.done" /\ running > 0 THEN running - 1
          ELSE running

\* a step that is not part of an audio playback
Observe(o, op, arrived, k) ==
    /\ ObserveStep(o, op, arrived, k)
    /\ UNCHANGED audioVars

\* ---------------------------------------------------------------- Init
\* "" stands for the null the technician fields start as
NoTechnician == ""
NoCall == [name |-> "", arguments |-> <<>>, call_id |-> Null]
Idle     == [pc |-> "idle", name |-> "", call_id |-> Null, ch |-> Null,
             wo |-> Null, origin |-> ""]
Finished == [Idle EXCEPT !.pc = "finished"]

InitAgent ==
    /\ peerConnection = Null
    /\ dataChannel = Null
    /\ mediaStream = Null
    /\ audioContext = "running"
    /\ isActive = FALSE
    /\ hasActiveResponse = FALSE
    /\ functionCall = NoCall
    /\ functionCallArgs = <<>>
    /\ functionCallArgumentsBuffer = <<>>
    /\ technicianId = NoTechnician
    /\ pcState = [k \in ConnIds |-> "none"]
    /\ msState = [k \in ConnIds |-> "none"]
    /\ dcState = [k \in ConnIds |-> "none"]
    /\ dcOwner = [k \in ConnIds |-> Null]
    /\ iceHandler = {}
    /\ connTask = [k \in ConnIds |-> "idle"]
    /\ handlers = [c \in CallIds |-> Idle]
    /\ timers = 0
    /\ audioTasks = [a \in AudioIds |-> "idle"]
    /\ played = <<>>
    /\ out = <<>>
    /\ nEvents = 0
    /\ respOutstanding = {}
    /\ awaitingTurn = {}
    /\ fragments = <<>>
    /\ fetched = {}
    /\ cancelled = {}
    /\ asked = 0
    /\ running = 0

\* the technician has clocked in: the clock record the backend created
ClockedIn == [state |-> "CLOCKED_IN", current |-> Null, next |-> Null]

InitCommon == InitAgent /\ workflow = ClockedIn

Init == InitCommon /\ profile = "session" /\ faults = FALSE

\* ------------------------------------------------------------- connect
\* setTechnicianInfo(id, name)
setTechnicianInfo ==
    /\ technicianId = NoTechnician
    /\ technicianId' = "3"
    /\ UNCHANGED <<peerConnection, dataChannel, mediaStream, audioContext,
                   isActive, hasActiveResponse, functionCall, functionCallArgs,
                   functionCallArgumentsBuffer>>
    /\ UNCHANGED <<rtcVars, taskVars, workflow, envVars>>
    /\ Observe(<<>>, "setTechnicianInfo", "", Null)

FreeTask == {k \in ConnIds : connTask[k] = "idle" /\ \A j \in 1..(k-1) : connTask[j] # "idle"}

\* connect(), up to the await of the token request.  The guard of the
\* code is the peerConnection handle.
ConnectGuardMissing == FALSE
ConnectGuard == peerConnection # Null

connectEntry(op) ==
    IF ConnectGuard
    THEN /\ nEvents < MaxEvents
         /\ nEvents' = nEvents + 1
         /\ UNCHANGED <<agentVars, rtcVars, taskVars, workflow, profile, faults>>
         /\ Observe(<<Call(op), Return(op)>>, op \o ":noop", "", Null)
    ELSE /\ \E k \in FreeTask : connTask' = [connTask EXCEPT ![k] = "token"]
         /\ UNCHANGED <<agentVars, rtcVars, handlers, timers, workflow, envVars>>
         /\ Observe(<<Call(op)>>, op, "", Null)

connect == connectEntry("connect")

\* start(): returns when isActive, otherwise awaits connect()
start ==
    IF isActive
    THEN /\ nEvents < MaxEvents
         /\ nEvents' = nEvents + 1
         /\ UNCHANGED <<agentVars, rtcVars, taskVars, workflow, profile, faults>>
         /\ Observe(<<Call("start"), Return("start")>>, "start:noop", "", Null)
    ELSE connectEntry("start")

\* the catch block of connect(): cleanup(); throw error
connectFails(k, s) ==
    /\ SetFrom(cleanup(s, NoFault))
    /\ connTask' = [connTask EXCEPT ![k] = "failed"]
    /\ UNCHANGED <<functionCall, functionCallArgs, functionCallArgumentsBuffer,
                   technicianId, dcOwner, iceHandler, handlers, timers,
                   workflow, envVars>>
    /\ Observe(<<Throw("connect")>>, "connect:rejected", "", Null)

\* the token request resolves: new RTCPeerConnection, then getUserMedia
connectToken(k, ok) ==
    /\ connTask[k] = "token"
    /\ IF ok
       THEN /\ peerConnection' = k
            /\ pcState' = [pcState EXCEPT ![k] = "new"]
            /\ connTask' = [connTask EXCEPT ![k] = "media"]
            /\ UNCHANGED <<dataChannel, mediaStream, audioContext, isActive,
                           hasActiveResponse, functionCall, functionCallArgs,
                           functionCallArgumentsBuffer, technicianId,
                           msState, dcState, dcOwner, iceHandler,
                           handlers, timers, workflow, envVars>>
            /\ Observe(<<>>, "connect:token", "", Null)
       ELSE connectFails(k, Cur)

\* getUserMedia resolves: tracks are added, the data channel is created on
\* this.peerConnection and the offer is requested
connectMedia(k, ok) ==
    /\ connTask[k] = "media"
    /\ IF ok
       THEN IF peerConnection # Null /\ pcState[peerConnection] # "closed"
            THEN /\ mediaStream' = k
                 /\ msState' = [msState EXCEPT ![k] = "live"]
                 /\ dataChannel' = k
                 /\ dcState' = [dcState EXCEPT ![k] = "connecting"]
                 /\ dcOwner' = [dcOwner EXCEPT ![k] = peerConnection]
                 /\ connTask' = [connTask EXCEPT ![k] = "sdp"]
                 /\ UNCHANGED <<peerConnection, audioContext, isActive,
                                hasActiveResponse, functionCall, functionCallArgs,
                                functionCallArgumentsBuffer, technicianId,
                                pcState, iceHandler, handlers, timers,
                                workflow, envVars>>
                 /\ Observe(<<>>, "connect:media", "", Null)
            ELSE \* createDataChannel throws on a null or closed connection
                 connectFails(k, [Cur EXCEPT !.ms = k,
                                             !.msS = [msState EXCEPT ![k] = "live"]])
       ELSE connectFails(k, Cur)

\* createOffer / setLocalDescription / signaling round trip /
\* setRemoteDescription, each on this.peerConnection as it is when the
\* await resumes; then the ICE handler is installed and isActive is set
connectSdp(k, ok) ==
    /\ connTask[k] = "sdp"
    /\ IF ok /\ peerConnection # Null /\ pcState[peerConnection] # "closed"
       THEN /\ pcState' = [pcState EXCEPT ![peerConnection] = "connected"]
            /\ iceHandler' = iceHandler \cup {peerConnection}
            /\ isActive' = TRUE
            /\ connTask' = [connTask EXCEPT ![k] = "done"]
            /\ UNCHANGED <<peerConnection, dataChannel, mediaStream, audioContext,
                           hasActiveResponse, functionCall, functionCallArgs,
                           functionCallArgumentsBuffer, technicianId,
                           msState, dcState, dcOwner, handlers, timers,
                           workflow, envVars>>
            /\ Observe(<<Emit("connected")>>, "connect:resolved", "", Null)
       ELSE connectFails(k, Cur)

\* ---------------------------------------------------------- disconnect
\* disconnect() / stop(): handleDisconnect()
disconnect ==
    /\ nEvents < MaxEvents
    /\ nEvents' = nEvents + 1
    /\ \E f \in FaultsIn(Cur) :
         LET r == handleDisconnect(Cur, f)
         IN  /\ SetFrom(r.state)
             /\ UNCHANGED <<functionCall, functionCallArgs,
                            functionCallArgumentsBuffer, technicianId,
                            dcOwner, iceHandler, taskVars, workflow,
                            profile, faults>>
             /\ Observe(<<Call("disconnect")>> \o r.out, "disconnect", "", Null)

\* ------------------------------------------------------- tool registry
\* keys of functionMap (voiceAgentTools.ts)
FunctionMapKeys ==
    {"get_work_orders", "get_technician_status", "start_travel", "end_travel",
     "update_work_order_notes", "check_inventory", "update_inventory",
     "create_manual_notification", "start_job", "end_job",
     "update_workflow_state"}

\* names of the entries of `tools`, which session.update advertises
AdvertisedTools ==
    {"get_work_orders", "get_technician_status", "start_travel", "end_travel",
     "update_work_order_notes", "check_inventory", "update_inventory",
     "create_manual_notification", "start_job", "end_job",
     "update_workflow_state"}

\* cases of the switch in handleFunctionCall
SwitchCases ==
    {"get_technician_status", "get_work_orders", "start_travel", "end_travel",
     "update_work_order_notes", "check_inventory", "update_inventory",
     "create_manual_notification", "start_job", "end_job"}

\* handlers whose first backend request is api.updateWorkflowState, with
\* the state they write
WritesState ==
    [start_travel |-> "TRAVELING_TO_FIRST_JOB", end_travel |-> "AT_JOBSITE",
     start_job |-> "WORKING_ON_JOB", end_job |-> "JOB_COMPLETED"]

\* the backend request whose response.data a handler returns
Returns ==
    [get_technician_status |-> "getTechnicianStatus",
     start_travel |-> "updateWorkOrderNotes",
     end_travel |-> "updateWorkOrderNotes",
     start_job |-> "startJobTiming", end_job |-> "endJobTiming",
     update_workflow_state |-> "updateWorkflowState"]

\* the function names the model lets the remote model call
ToolNames ==
    IF profile = "workflow"
    THEN {"start_travel", "end_travel", "start_job", "end_job",
          "update_workflow_state"}
    ELSE IF profile = "recovery"
    THEN {"get_technician_status", "start_travel", "end_travel"}
    ELSE {"get_technician_status", "no_such_tool"}

\* ---------------------------------------------------------- arguments
\* The argument text is a sequence of tokens; a delta carries one or more.
Members == {"wo:7", "wo:42", "wo:abc"}

Deltas ==
    IF profile = "workflow"
    THEN {<<"{", "wo:7", "}">>, <<"{", "wo:42", "}">>, <<"{", "}">>}
    ELSE {<<"{", "}">>, <<"}">>}

\* JSON.parse succeeds on an object text
JSONValid(text) ==
    /\ Len(text) >= 2
    /\ text[1] = "{"
    /\ text[Len(text)] = "}"
    /\ \A i \in 2..(Len(text) - 1) : text[i] \in Members

\* this.functionCallArgs ? JSON.parse(this.functionCallArgs) : {}
ArgsParse(text) == text = <<>> \/ JSONValid(text)

\* JSON.parse(text), as far as the handlers read the object
JSONParse(text) ==
    IF JSONValid(text)
    THEN [ok |-> TRUE, work_order_id |->
            IF Len(text) = 2 THEN "undefined"
            ELSE LET m == text[Len(text) - 1]
                 IN  IF m = "wo:7" THEN "7" ELSE IF m = "wo:42" THEN "42" ELSE "abc"]
    ELSE [ok |-> FALSE, work_order_id |-> "undefined"]

\* const args = this.functionCallArgs ? JSON.parse(this.functionCallArgs) : {}
HandlerArgs(text) ==
    IF text = <<>> THEN [ok |-> TRUE, work_order_id |-> "undefined"]
    ELSE JSONParse(text)

\* args.work_order_id of the parsed object: "undefined" when absent
WorkOrderArg(text) ==
    IF text = <<>> \/ Len(text) = 2 THEN "undefined"
    ELSE LET m == text[Len(text) - 1]
         IN  IF m = "wo:7" THEN "7" ELSE IF m = "wo:42" THEN "42" ELSE "abc"

\* parseInt(work_order_id) as it reaches the backend: NaN is serialised
\* as null
parseInt(v) == IF v = "7" THEN 7 ELSE IF v = "42" THEN 42 ELSE Null

\* ------------------------------------------------------------ backend
\* PATCH /technicians/{id}/workflow-state: the clock record takes the
\* state and the work-order ids of the request as they are
updateWorkflowState(state, current, next) ==
    [state |-> state, current |-> current, next |-> next]

\* ---------------------------------------------------- handleFunctionCall
FreeCall == {c \in CallIds : handlers[c].pc = "idle" /\
                             \A j \in 1..(c-1) : handlers[j].pc # "idle"}

ChannelOpen == dataChannel # Null /\ dcState[dataChannel] = "open"

\* the statements after the try/catch: "Reset function call state"
ResetCall ==
    /\ functionCall' = NoCall
    /\ functionCallArgs' = <<>>
    /\ functionCallArgumentsBuffer' = <<>>

\* the exceptions thrown before the first await
ThrowsBeforeAwait(call) ==
    \/ ~ArgsParse(call.arguments)
    \/ call.name \notin FunctionMapKeys
    \/ call.name \notin SwitchCases

\* the message of that exception
ErrorBeforeAwait(call) ==
    IF ~ArgsParse(call.arguments) THEN "SyntaxError" ELSE "Unknown function"

\* the catch block is entered with that exception: `Unknown function:
\* ${functionName}` carries the name that was called
CatchBeforeAwait(c, call) ==
    [Catch(c, ErrorBeforeAwait(call)) EXCEPT !.body =
        IF ErrorBeforeAwait(call) = "Unknown function" THEN call.name ELSE ""]

\* an invocation that ended before its first await; origin is the message
\* case that made it
Rejected(origin) == [Finished EXCEPT !.origin = origin]

\* handleFunctionCall() from its entry to its first await, for the record
\* `call` just stored in this.functionCall by the message handler;
\* c is the invocation, k the channel the message arrived on, buf the
\* argument buffer the message handler left.
handleFunctionCall(c, k, call, origin, buf, arrived) ==
    IF dataChannel = Null
    THEN /\ functionCall' = call
         /\ functionCallArgs' = call.arguments
         /\ functionCallArgumentsBuffer' = buf
         /\ handlers' = [handlers EXCEPT ![c] = Rejected(origin)]
         /\ Observe(<<>>, "handleFunctionCall:return", arrived, k)
    ELSE IF ThrowsBeforeAwait(call)
    THEN /\ ResetCall
         /\ handlers' = [handlers EXCEPT ![c] = Rejected(origin)]
         /\ Observe(<<CatchBeforeAwait(c, call)>> \o
                    (IF ChannelOpen
                     THEN <<FunctionCallOutput(dataChannel, call.call_id, "error", c,
                                               call.call_id, k)>>
                     ELSE <<>>),
                    "handleFunctionCall:catch", arrived, k)
    ELSE /\ functionCall' = call
         /\ functionCallArgs' = call.arguments
         /\ functionCallArgumentsBuffer' = buf
         /\ handlers' = [handlers EXCEPT ![c] =
               [pc |-> IF call.name \in DOMAIN WritesState THEN "state" ELSE "aux",
                name |-> call.name, call_id |-> call.call_id, ch |-> k,
                wo |-> parseInt(WorkOrderArg(call.arguments)), origin |-> origin]]
         /\ Observe(<<>>, "handleFunctionCall:await", arrived, k)

\* case 'response.function_call_arguments.done'
fcArgumentsDone(k, name) ==
    /\ dcState[k] = "open"
    /\ UNCHANGED <<peerConnection, dataChannel, mediaStream, audioContext,
                   isActive, hasActiveResponse, technicianId>>
    /\ UNCHANGED <<rtcVars, connTask, timers, workflow, envVars>>
    /\ \E c \in FreeCall :
         handleFunctionCall(c, k,
             [name |-> name, arguments |-> functionCallArgumentsBuffer, call_id |-> c],
             "done", <<>>, "response.function_call_arguments.done")

\* case 'response.function_call.started'
fcStarted(k) ==
    /\ dcState[k] = "open"
    /\ nEvents < MaxEvents
    /\ nEvents' = nEvents + 1
    /\ functionCallArgumentsBuffer' = <<>>
    /\ UNCHANGED <<peerConnection, dataChannel, mediaStream, audioContext,
                   isActive, hasActiveResponse, functionCall, functionCallArgs,
                   technicianId>>
    /\ UNCHANGED <<rtcVars, taskVars, workflow, profile, faults>>
    /\ Observe(<<>>, "function_call.started", "response.function_call.started", k)

\* case 'response.function_call_arguments.delta'
fcArgumentsDelta(k, d) ==
    /\ dcState[k] = "open"
    /\ Len(functionCallArgumentsBuffer) + Len(d) <= MaxArgLen
    /\ Len(fragments) + Len(d) <= MaxArgLen
    /\ functionCallArgumentsBuffer' = functionCallArgumentsBuffer \o d
    /\ UNCHANGED <<peerConnection, dataChannel, mediaStream, audioContext,
                   isActive, hasActiveResponse, functionCall, functionCallArgs,
                   technicianId>>
    /\ UNCHANGED <<rtcVars, taskVars, workflow, envVars>>
    /\ Observe(<<>>, "function_call_arguments.delta",
               "response.function_call_arguments.delta", k)

\* an exception leaves handleFunctionCall: a call made with await by the
\* message handler lands in its catch (emit 'error'); a call made without
\* await is an unhandled rejection
Escapes(c) ==
    <<Throw("handleFunctionCall")>> \o
    (IF handlers[c].origin = "done" THEN <<Emit("error")>> ELSE <<>>)

\* the catch block of handleFunctionCall, then the reset; pre is what
\* the invocation did before it got there
handlerCatch(c, pre) ==
    /\ handlers' = [handlers EXCEPT ![c] = Finished]
    /\ UNCHANGED workflow
    /\ IF ChannelOpen
       THEN IF functionCall = NoCall
            THEN \* this.functionCall.call_id on null throws inside the catch
                 /\ UNCHANGED <<functionCall, functionCallArgs,
                                functionCallArgumentsBuffer>>
                 /\ Observe(pre \o Escapes(c), "handler:throws", "", Null)
            ELSE /\ ResetCall
                 /\ Observe(pre \o
                            <<FunctionCallOutput(dataChannel, functionCall.call_id,
                                "error", c, handlers[c].call_id, handlers[c].ch)>>,
                            "handler:error", "", Null)
       ELSE /\ ResetCall
            /\ Observe(pre, "handler:dropped", "", Null)

\* the record the workflow handler `name` stores for work order wo: the
\* next work order is passed as undefined
Stores(name, wo) == updateWorkflowState(WritesState[name], wo, Null)

\* the record that is stored after the model's call name(text) when every
\* backend request of its handler succeeds
StoredAfter(name, text) ==
    IF \/ ThrowsBeforeAwait([name |-> name, arguments |-> text, call_id |-> Null])
       \/ name \notin DOMAIN WritesState
    THEN workflow
    ELSE Stores(name, parseInt(WorkOrderArg(text)))

\* the backend request of a handler was rejected
Rejects(c) == <<Catch(c, "request failed")>>

\* a handler's await of api.updateWorkflowState resumes
handlerState(c, ok) ==
    /\ handlers[c].pc = "state"
    /\ UNCHANGED <<peerConnection, dataChannel, mediaStream, audioContext,
                   isActive, hasActiveResponse, technicianId>>
    /\ UNCHANGED <<rtcVars, connTask, timers, envVars>>
    /\ IF ok
       THEN /\ workflow' = Stores(handlers[c].name, handlers[c].wo)
            /\ handlers' = [handlers EXCEPT ![c].pc = "aux"]
            /\ UNCHANGED <<functionCall, functionCallArgs, functionCallArgumentsBuffer>>
            /\ Observe(<<Backend(handlers[c].ch, "updateWorkflowState")>>,
                       "handler:state", "", Null)
       ELSE handlerCatch(c, Rejects(c))

\* a handler's last backend request resumes: the result is sent when the
\* channel is open, and the 500 ms timer is awaited
handlerAux(c, ok) ==
    /\ handlers[c].pc = "aux"
    /\ UNCHANGED <<peerConnection, dataChannel, mediaStream, audioContext,
                   isActive, hasActiveResponse, technicianId>>
    /\ UNCHANGED <<rtcVars, connTask, timers, envVars>>
    /\ LET got == <<Backend(handlers[c].ch, Returns[handlers[c].name])>>
       IN
       IF ok /\ ~(ChannelOpen /\ functionCall = NoCall)
       THEN /\ UNCHANGED workflow
            /\ IF ChannelOpen
               THEN /\ handlers' = [handlers EXCEPT ![c].pc = "grace"]
                    /\ UNCHANGED <<functionCall, functionCallArgs,
                                   functionCallArgumentsBuffer>>
                    /\ Observe(got \o
                               <<FunctionCallOutput(dataChannel, functionCall.call_id,
                                   Returns[handlers[c].name], c,
                                   handlers[c].call_id, handlers[c].ch)>>,
                               "handler:result", "", Null)
               ELSE /\ handlers' = [handlers EXCEPT ![c] = Finished]
                    /\ ResetCall
                    /\ Observe(got, "handler:dropped", "", Null)
       ELSE IF ok
       THEN \* this.functionCall.call_id on null throws in the try block
            handlerCatch(c, got \o <<Catch(c, "TypeError")>>)
       ELSE handlerCatch(c, Rejects(c))

\* the 500 ms timer of handleFunctionCall fires: the state is reset
handlerGrace(c) ==
    /\ handlers[c].pc = "grace"
    /\ handlers' = [handlers EXCEPT ![c] = Finished]
    /\ ResetCall
    /\ UNCHANGED <<peerConnection, dataChannel, mediaStream, audioContext,
                   isActive, hasActiveResponse, technicianId>>
    /\ UNCHANGED <<rtcVars, connTask, timers, workflow, envVars>>
    /\ Observe(<<>>, "handler:reset", "", Null)

\* handleResponseContent: a 'function_call' item of response.output_item.added
contentFunctionCall(k, name, text) ==
    /\ dcState[k] = "open"
    /\ UNCHANGED <<peerConnection, dataChannel, mediaStream, audioContext,
                   isActive, hasActiveResponse, technicianId>>
    /\ UNCHANGED <<rtcVars, connTask, timers, workflow, envVars>>
    /\ \E c \in FreeCall :
         handleFunctionCall(c, k,
             [name |-> name, arguments |-> text, call_id |-> Null],
             "content", functionCallArgumentsBuffer, "response.output_item.added")

\* ------------------------------------------------------ inbound events
Inbound(k) ==
    /\ dcState[k] = "open"
    /\ nEvents < MaxEvents
    /\ nEvents' = nEvents + 1
    /\ UNCHANGED <<profile, faults>>

\* dataChannel.send(): throws unless the channel is open; the message
\* handler catches and emits 'error'
SendOrError(type) ==
    IF ChannelOpen THEN <<SendMsg(dataChannel, type)>> ELSE <<Emit("error")>>

\* case 'error' without the test for the duplicate-response message
serverErrorSurfaced(k, msg) ==
    /\ Inbound(k)
    /\ UNCHANGED <<agentVars, rtcVars, taskVars, workflow>>
    /\ Observe(<<Received(k, "error", msg), Emit("error")>>, "error", "error", k)

\* case 'error'
serverError(k, msg) ==
    /\ Inbound(k)
    /\ UNCHANGED <<agentVars, rtcVars, taskVars, workflow>>
    /\ Observe(<<Received(k, "error", msg)>> \o
               (IF msg = DuplicateResponse THEN <<>> ELSE <<Emit("error")>>),
               IF msg = DuplicateResponse THEN "error:ignored" ELSE "error",
               "error", k)

\* case 'input_audio_buffer.committed'
audioCommitted(k) ==
    /\ Inbound(k)
    /\ UNCHANGED <<peerConnection, dataChannel, mediaStream, audioContext,
                   isActive, functionCall, functionCallArgs,
                   functionCallArgumentsBuffer, technicianId>>
    /\ UNCHANGED <<rtcVars, taskVars, workflow>>
    /\ IF dataChannel # Null /\ ~hasActiveResponse
       THEN /\ hasActiveResponse' = TRUE
            /\ Observe(SendOrError("response.create"), "committed:request",
                       "input_audio_buffer.committed", k)
       ELSE /\ UNCHANGED hasActiveResponse
            /\ Observe(<<>>, "committed:skip", "input_audio_buffer.committed", k)

\* case 'response.created'
responseCreated(k) ==
    /\ Inbound(k)
    /\ hasActiveResponse' = TRUE
    /\ UNCHANGED <<peerConnection, dataChannel, mediaStream, audioContext,
                   isActive, functionCall, functionCallArgs,
                   functionCallArgumentsBuffer, technicianId>>
    /\ UNCHANGED <<rtcVars, taskVars, workflow>>
    /\ Observe(<<>>, "response.created", "response.created", k)

\* case 'response.done'

responseDone(k, status) ==
    /\ Inbound(k)
    /\ IF status = "rate_limit_exceeded"
       THEN /\ timers < MaxTimers
            /\ timers' = timers + 1
            /\ UNCHANGED hasActiveResponse
       ELSE /\ hasActiveResponse' = FALSE
            /\ UNCHANGED timers
    /\ UNCHANGED <<peerConnection, dataChannel, mediaStream, audioContext,
                   isActive, functionCall, functionCallArgs,
                   functionCallArgumentsBuffer, technicianId>>
    /\ UNCHANGED <<rtcVars, connTask, handlers, workflow>>
    /\ Observe(<<Emit("response_done")>>, "response.done:" \o status,
               "response.done", k)

\* the setTimeout callback of the rate-limit branch
cooldownTimer ==
    /\ timers > 0
    /\ timers' = timers - 1
    /\ hasActiveResponse' = FALSE
    /\ UNCHANGED <<peerConnection, dataChannel, mediaStream, audioContext,
                   isActive, functionCall, functionCallArgs,
                   functionCallArgumentsBuffer, technicianId>>
    /\ UNCHANGED <<rtcVars, connTask, handlers, workflow, envVars>>
    /\ Observe(<<>>, "cooldown", "", Null)

\* ------------------------------------------------------ audio playback
FreeAudio == {a \in AudioIds : audioTasks[a] = "idle" /\
                               \A j \in 1..(a-1) : audioTasks[j] # "idle"}

\* the browser suspends the audio context
audioSuspend ==
    /\ audioContext = "running"
    /\ nEvents < MaxEvents
    /\ nEvents' = nEvents + 1
    /\ audioContext' = "suspended"
    /\ UNCHANGED <<peerConnection, dataChannel, mediaStream, isActive,
                   hasActiveResponse, functionCall, functionCallArgs,
                   functionCallArgumentsBuffer, technicianId>>
    /\ UNCHANGED <<rtcVars, taskVars, workflow, profile, faults>>
    /\ Observe(<<>>, "audiocontext:suspended", "", Null)

\* playAudioDelta() that does not call ensureAudioContext() first: it
\* returns when there is no audio context
playAudioDeltaUnensured(k, made) ==
    /\ dcState[k] = "open"
    /\ \E a \in FreeAudio :
         audioTasks' = [audioTasks EXCEPT ![a] =
             IF audioContext \in {"null", "closed"} THEN "dropped"
             ELSE IF audioContext = "suspended" THEN "resume" ELSE "decode"]
    /\ UNCHANGED played
    /\ UNCHANGED <<agentVars, rtcVars, taskVars, workflow, envVars>>
    /\ ObserveStep(<<>>, "playAudioDelta", "response.output_item.added", k)

\* handleResponseContent: an 'audio' item of response.output_item.added.
\* playAudioDelta() runs to its first await that yields to the event
\* loop: ensureAudioContext() makes a new context when there is none or it
\* is closed, and awaits resume() when the context is suspended; otherwise
\* decodeAudioData() is awaited.
playAudioDelta(k, made) ==
    /\ dcState[k] = "open"
    /\ \E a \in FreeAudio :
         LET ctx == IF audioContext \in {"null", "closed"} THEN made
                    ELSE audioContext
         IN  /\ audioContext' = ctx
             /\ audioTasks' = [audioTasks EXCEPT ![a] =
                    IF ctx = "suspended" THEN "resume" ELSE "decode"]
    /\ UNCHANGED played
    /\ UNCHANGED <<peerConnection, dataChannel, mediaStream, isActive,
                   hasActiveResponse, functionCall, functionCallArgs,
                   functionCallArgumentsBuffer, technicianId>>
    /\ UNCHANGED <<rtcVars, taskVars, workflow, envVars>>
    /\ ObserveStep(<<>>, "playAudioDelta", "response.output_item.added", k)

\* the audio context starts running: the resume() promises are resolved
\* in the order of the calls and each invocation calls decodeAudioData();
\* on a context that was closed meanwhile they are rejected and the
\* invocations end in their catch
audioResumed ==
    /\ \E a \in AudioIds : audioTasks[a] = "resume"
    /\ audioContext' = IF audioContext = "suspended" THEN "running"
                       ELSE audioContext
    /\ audioTasks' = [a \in AudioIds |->
           IF audioTasks[a] = "resume"
           THEN (IF audioContext = "suspended" THEN "decode" ELSE "dropped")
           ELSE audioTasks[a]]
    /\ UNCHANGED played
    /\ UNCHANGED <<peerConnection, dataChannel, mediaStream, isActive,
                   hasActiveResponse, functionCall, functionCallArgs,
                   functionCallArgumentsBuffer, technicianId>>
    /\ UNCHANGED <<rtcVars, taskVars, workflow, envVars>>
    /\ ObserveStep(<<>>, "playAudioDelta:resumed", "", Null)

\* decodeAudioData() of invocation a settles: createBufferSource(),
\* connect and source.start(); a rejection or a context that is gone ends
\* the invocation in its catch
audioDecoded(a, ok) ==
    /\ audioTasks[a] = "decode"
    /\ IF ok /\ audioContext \notin {"null", "closed"}
       THEN /\ audioTasks' = [audioTasks EXCEPT ![a] = "played"]
            /\ played' = Append(played, a)
       ELSE /\ audioTasks' = [audioTasks EXCEPT ![a] = "dropped"]
            /\ UNCHANGED played
    /\ UNCHANGED <<agentVars, rtcVars, taskVars, workflow, envVars>>
    /\ ObserveStep(<<>>, "playAudioDelta:decoded", "", Null)

\* ----------------------------------------------------- channel events
\* dataChannel.onopen of channel k: initializeSession(), then the initial
\* response.create; on a throw cleanup() and emit('error')
dataChannelOpen(k) ==
    /\ dcState[k] = "connecting"
    /\ pcState[dcOwner[k]] = "connected"
    /\ LET opened == [dcState EXCEPT ![k] = "open"]
           canInit == /\ dataChannel # Null
                      /\ opened[dataChannel] = "open"
                      /\ technicianId # NoTechnician
       IN  IF canInit
           THEN /\ dcState' = opened
                /\ UNCHANGED <<peerConnection, dataChannel, mediaStream,
                               audioContext, isActive, hasActiveResponse,
                               msState, pcState>>
                /\ Observe(<<Emit("datachannel_open"),
                             SendMsg(dataChannel, "session.update"),
                             SendMsg(dataChannel, "response.create")>>,
                           "onopen", "", Null)
           ELSE /\ SetFrom(cleanup([Cur EXCEPT !.dcS = opened], NoFault))
                /\ Observe(<<Emit("datachannel_open"), Emit("error")>>,
                           "onopen:error", "", Null)
    /\ UNCHANGED <<functionCall, functionCallArgs, functionCallArgumentsBuffer,
                   technicianId, dcOwner, iceHandler, taskVars, workflow, envVars>>

\* dataChannel.onclose: the peer closed channel k
dataChannelClose(k) ==
    /\ dcState[k] = "open"
    /\ nEvents < MaxEvents
    /\ nEvents' = nEvents + 1
    /\ dcState' = [dcState EXCEPT ![k] = "closed"]
    /\ UNCHANGED <<agentVars, pcState, msState, dcOwner, iceHandler, taskVars,
                   workflow, profile, faults>>
    /\ Observe(<<Emit("datachannel_close")>>, "onclose", "", Null)

\* oniceconnectionstatechange of peer connection k
iceConnectionStateChange(k, st) ==
    /\ pcState[k] = "connected"
    /\ k \in iceHandler
    /\ nEvents < MaxEvents
    /\ nEvents' = nEvents + 1
    /\ LET changed == [pcState EXCEPT ![k] = st]
       IN  IF peerConnection # Null /\ changed[peerConnection] = "disconnected"
           THEN \E f \in FaultsIn(Cur) :
                  LET r == handleDisconnect([Cur EXCEPT !.pcS = changed], f)
                  IN  /\ SetFrom(r.state)
                      /\ Observe(<<Event(k, st)>> \o r.out, "ice:" \o st, "", Null)
           ELSE /\ pcState' = changed
                /\ UNCHANGED <<peerConnection, dataChannel, mediaStream,
                               audioContext, isActive, hasActiveResponse,
                               msState, dcState>>
                /\ Observe(<<Event(k, st)>>, "ice:" \o st, "", Null)
    /\ UNCHANGED <<functionCall, functionCallArgs, functionCallArgumentsBuffer,
                   technicianId, dcOwner, iceHandler, taskVars, workflow,
                   profile, faults>>

Statuses == {"completed", "turn_detected", "rate_limit_exceeded"}
ArgTexts == {<<>>, <<"{", "}">>, <<"}">>}

\* --------------------------------------------------- specifications
\* Connection lifecycle: connect / start / disconnect, every outcome of
\* every await of connect(), and the transport's events.
Next ==
    \/ setTechnicianInfo
    \/ connect
    \/ start
    \/ \E k \in ConnIds, ok \in BOOLEAN : connectToken(k, ok)
    \/ \E k \in ConnIds, ok \in BOOLEAN : connectMedia(k, ok)
    \/ \E k \in ConnIds, ok \in BOOLEAN : connectSdp(k, ok)
    \/ disconnect
    \/ \E k \in ConnIds : dataChannelOpen(k)
    \/ \E k \in ConnIds : dataChannelClose(k)
    \/ \E k \in ConnIds, st \in {"disconnected", "failed"} :
          iceConnectionStateChange(k, st)

Spec == Init /\ [][Next]_vars

\* The same with teardown steps that may throw.
InitTeardown == InitCommon /\ profile = "session" /\ faults = TRUE
SpecTeardown == InitTeardown /\ [][Next]_vars

\* Sessions that are established without a failure, torn down and
\* re-established, with function calls in flight.
\* the caller sets the technician first and does not overlap connect() calls
Settled == \A k \in ConnIds : connTask[k] \in {"idle", "done", "failed"}

Establish ==
    \/ setTechnicianInfo
    \/ (technicianId # NoTechnician /\ Settled /\ connect)
    \/ \E k \in ConnIds : connectToken(k, TRUE)
    \/ \E k \in ConnIds : connectMedia(k, TRUE)
    \/ \E k \in ConnIds : connectSdp(k, TRUE)
    \/ \E k \in ConnIds : dataChannelOpen(k)

Handlers ==
    \/ \E c \in CallIds, ok \in BOOLEAN : handlerState(c, ok)
    \/ \E c \in CallIds, ok \in BOOLEAN : handlerAux(c, ok)
    \/ \E c \in CallIds : handlerGrace(c)

NextCalls ==
    \/ Establish
    \/ disconnect
    \/ \E k \in ConnIds : fcStarted(k)
    \/ \E k \in ConnIds, d \in Deltas : fcArgumentsDelta(k, d)
    \/ \E k \in ConnIds, n \in ToolNames : fcArgumentsDone(k, n)
    \/ \E k \in ConnIds, n \in ToolNames, t \in ArgTexts :
          contentFunctionCall(k, n, t)
    \/ \E c \in CallIds, ok \in BOOLEAN : handlerAux(c, ok)
    \/ \E c \in CallIds : handlerGrace(c)

InitCalls == InitCommon /\ profile = "calls" /\ faults = FALSE
SpecCalls == InitCalls /\ [][NextCalls]_vars

\* The response lifecycle of established sessions.
NextResponse ==
    \/ Establish
    \/ disconnect
    \/ \E k \in ConnIds, msg \in ErrorMessages : serverError(k, msg)
    \/ \E k \in ConnIds : audioCommitted(k)
    \/ \E k \in ConnIds : responseCreated(k)
    \/ \E k \in ConnIds, st \in Statuses : responseDone(k, st)
    \/ cooldownTimer

InitResponse == InitCommon /\ profile = "response" /\ faults = FALSE
SpecResponse == InitResponse /\ [][NextResponse]_vars

\* The workflow handlers of an established session against the backend.
NextWorkflow ==
    \/ Establish
    \/ \E k \in ConnIds, d \in Deltas : fcArgumentsDelta(k, d)
    \/ \E k \in ConnIds, n \in ToolNames : fcArgumentsDone(k, n)
    \/ Handlers

InitWorkflow == InitCommon /\ profile = "workflow" /\ faults = FALSE
SpecWorkflow == InitWorkflow /\ [][NextWorkflow]_vars

\* Audio deltas of an established session.
NextAudio ==
    \/ Establish
    \/ audioSuspend
    \/ \E k \in ConnIds, made \in {"running", "suspended"} : playAudioDelta(k, made)
    \/ audioResumed
    \/ \E a \in AudioIds, ok \in BOOLEAN : audioDecoded(a, ok)

InitAudio == InitCommon /\ profile = "audio" /\ faults = FALSE
SpecAudio == InitAudio /\ [][NextAudio]_vars

\* Audio deltas of sessions that follow a disconnect() or a connect() that
\* failed.
NextPlayback ==
    \/ NextAudio
    \/ disconnect
    \/ \E k \in ConnIds : connectToken(k, FALSE)

SpecPlayback == InitAudio /\ [][NextPlayback]_vars

\* Sessions that are torn down and re-established while the technician
\* moves through the workflow.
NextRecovery ==
    \/ Establish
    \/ disconnect
    \/ \E k \in ConnIds, n \in ToolNames : fcArgumentsDone(k, n)
    \/ Handlers

InitRecovery == InitCommon /\ profile = "recovery" /\ faults = FALSE
SpecRecovery == InitRecovery /\ [][NextRecovery]_vars

\* The same for a technician who has completed a job and has a next work
\* order queued.
JobCompleted == [state |-> "JOB_COMPLETED", current |-> 7, next |-> 42]

InitScenario == InitAgent /\ workflow = JobCompleted /\ profile = "workflow"
                          /\ faults = FALSE
SpecScenario == InitScenario /\ [][NextWorkflow]_vars

\* ================================================================ claims
Pending(c) == handlers[c].pc \in {"state", "aux", "grace"}

\* the transition table of the workflow
TransitionTable ==
    {<<"CLOCKED_IN", "TRAVELING_TO_FIRST_JOB">>,
     <<"TRAVELING_TO_FIRST_JOB", "AT_JOBSITE">>,
     <<"AT_JOBSITE", "WORKING_ON_JOB">>,
     <<"WORKING_ON_JOB", "JOB_COMPLETED">>,
     <<"JOB_COMPLETED", "TRAVELING_TO_NEXT_JOB">>,
     <<"JOB_COMPLETED", "TRAVELING_TO_OFFICE">>,
     <<"TRAVELING_TO_NEXT_JOB", "AT_JOBSITE">>,
     <<"TRAVELING_TO_OFFICE", "DAY_COMPLETED">>}

\* C1: every change a dispatched handler makes to the stored workflow
\* record is an edge of the transition table; a target that is not allowed
\* from the current state leaves the record unchanged.
C1_OnlyTableEdges ==
    [][workflow' # workflow =>
          <<workflow.state, workflow'.state>> \in TransitionTable]_vars

\* C2: a function call that arrives while the handler of an earlier call
\* has not finished does not overwrite the earlier call's record
\* {name, call_id, arguments}.
C2_PendingCallNotOverwritten ==
    [][((\E c \in CallIds : Pending(c)) /\ functionCall # NoCall /\
        (\E c \in CallIds : handlers[c].pc = "idle" /\ handlers'[c].pc # "idle"))
          => functionCall' = functionCall]_vars

\* C3: response.create is never sent on a channel on which a response that
\* the client requested, or that the server announced with
\* response.created, has not ended with response.done.
C3_OneOutstandingResponse ==
    [][\A i \in 1..Len(out') :
          (out'[i].kind = "send" /\ out'[i].type = "response.create")
             => out'[i].ch \notin respOutstanding]_vars

\* C4: overlapping connect() calls run at most one connection attempt, and
\* no peer connection, microphone stream or data channel is open without
\* being the one the agent references.
C4_SingleConnectAttempt ==
    /\ Cardinality({k \in ConnIds : connTask[k] \in {"token", "media", "sdp"}}) <= 1
    /\ \A k \in ConnIds :
         /\ pcState[k] \notin {"none", "closed"} => peerConnection = k
         /\ msState[k] = "live" => mediaStream = k
         /\ dcState[k] \in {"connecting", "open"} => dataChannel = k

\* C5: connect() (or start()) called on an Active session returns without
\* any side effect: no field of the agent and no browser object changes, no
\* request is started and nothing is sent.
C5_ConnectOnActiveIsNoop ==
    [][(isActive /\ (Called("connect")' \/ Called("start")'))
          => /\ UNCHANGED <<agentVars, rtcVars, taskVars, workflow>>
             /\ \A i \in 1..Len(out') : out'[i].kind \in {"call", "return"}]_vars

\* C5 witness: connect() was called on an Active session and returned at
\* its guard.
C5_Witness == isActive /\ peerConnection # Null /\ Returned("connect")

\* C6: disconnect() runs to completion whatever teardown step throws: the
\* handles are null, isActive is false and 'disconnected' was emitted.
C6_DisconnectCompletes ==
    Called("disconnect") =>
        /\ mediaStream = Null
        /\ dataChannel = Null
        /\ peerConnection = Null
        /\ ~isActive
        /\ Emitted("disconnected")

\* C7: when a handler whose session was torn down by disconnect() resumes,
\* nothing is sent on the torn-down channel and no exception escapes.
C7_CompletionAfterTeardown ==
    [][\A c \in CallIds :
          (Pending(c) /\ dcState[handlers[c].ch] = "closed" /\
           handlers'[c] # handlers[c])
             => /\ \A i \in 1..Len(out') :
                     out'[i].kind = "send" => out'[i].ch # handlers[c].ch
                /\ ~Threw']_vars

\* C8: a handler's result is never sent on the data channel of a session
\* other than the one its call arrived on.
C8_ResultStaysInItsSession ==
    \A i \in 1..Len(out) :
        (out[i].kind = "send" /\ out[i].type = "function_call_output")
           => out[i].ch = out[i].session

\* C9: every function_call_output carries the call_id of the call whose
\* handler produced it.
C9_OutputCarriesOwnCallId ==
    \A i \in 1..Len(out) :
        (out[i].kind = "send" /\ out[i].type = "function_call_output")
           => out[i].call_id = out[i].own

\* C10: once no handler is in flight any more, no function_call_output on
\* a connected channel is left without a response.create sent after it.
C10_NextTurnRequested ==
    (\A c \in CallIds : ~Pending(c)) => awaitingTurn = {}

\* the function_call_output records of o that invocation c sent
OutputsOf(o, c) ==
    {i \in 1..Len(o) : o[i].kind = "send" /\ o[i].type = "function_call_output"
                          /\ o[i].task = c}

\* invocation c sent exactly one output, an error result
OneErrorOutput(o, c) ==
    /\ Cardinality(OutputsOf(o, c)) = 1
    /\ \A i \in OutputsOf(o, c) : o[i].body = "error"

\* C11: when a handler's backend request fails or the called name is not
\* in the registry, no 'error' event is emitted, no exception leaves the
\* dispatcher and the session is left as it is; while the data channel is
\* open, exactly one error function_call_output is sent for that call.
C11_HandlerErrorStaysLocal ==
    [][\A i \in 1..Len(out') :
          (out'[i].kind = "catch" /\
           out'[i].type \in {"request failed", "Unknown function"})
             => /\ ~Emitted("error")'
                /\ ~Threw'
                /\ isActive' = isActive
                /\ dataChannel' = dataChannel
                /\ dcState' = dcState
                /\ ChannelOpen => OneErrorOutput(out', out'[i].task)]_vars

\* response.function_call_arguments.done made invocation c
DoneStep(c) ==
    /\ handlers[c].pc = "idle"
    /\ handlers'[c].pc # "idle"
    /\ handlers'[c].origin = "done"

\* C12: when response.function_call_arguments.done closes a call whose
\* argument buffer is not valid JSON (the empty buffer included), the
\* handler is not invoked, an error result is sent for the call and the
\* session stays open.
C12_MalformedArgumentsRejected ==
    [][\A c \in CallIds :
          (DoneStep(c) /\ ~JSONValid(functionCallArgumentsBuffer))
             => /\ handlers'[c].pc = "finished"
                /\ OneErrorOutput(out', c)
                /\ ~Emitted("error")'
                /\ isActive' = isActive
                /\ dcState' = dcState]_vars

\* C13: the arguments a handler is invoked with are the JSON parse of the
\* concatenation, in arrival order, of the argument fragments received for
\* its call before response.function_call_arguments.done, also when the
\* fragments arrived while an earlier call's handler was running.
C13_ArgumentsAreTheFragments ==
    [][\A c \in CallIds :
          (DoneStep(c) /\ handlers'[c].pc \in {"state", "aux"} /\
           JSONValid(fragments))
             => HandlerArgs(functionCallArgs') = JSONParse(fragments)]_vars

\* C14: audio deltas are rendered in arrival order: source.start() is
\* called for the deltas in the order in which playAudioDelta received
\* them, whatever the durations of resume and decode.
C14_PlaybackInArrivalOrder ==
    \A i, j \in 1..Len(played) : i < j => played[i] < played[j]

\* the session.update messages of o
SessionUpdates(o) ==
    {i \in 1..Len(o) : o[i].kind = "send" /\ o[i].type = "session.update"}

\* C15: when the data channel of a session opens with the technician
\* information set, exactly one session.update is sent on that channel,
\* and no session.update is sent on a channel at any other time.
C15_SessionUpdateOnce ==
    [][/\ \A k \in ConnIds :
            (dcState[k] = "connecting" /\ dcState'[k] # "connecting" /\
             Emitted("datachannel_open")' /\ technicianId # NoTechnician)
               => /\ Cardinality(SessionUpdates(out')) = 1
                  /\ \A i \in SessionUpdates(out') : out'[i].ch = k
       /\ \A i \in SessionUpdates(out') :
            dcState[out'[i].ch] = "connecting"]_vars

\* the 'disconnected' events of o
Disconnections(o) ==
    {i \in 1..Len(o) : o[i].kind = "emit" /\ o[i].type = "disconnected"}

\* C16: when the ICE state of an established connection becomes
\* disconnected or failed, 'disconnected' is emitted exactly once and no
\* connection attempt is started; an attempt only starts in a connect()
\* or start() call.
C16_DisconnectedOncePerLoss ==
    [][/\ \A i \in 1..Len(out') :
            (out'[i].kind = "event" /\
             out'[i].type \in {"disconnected", "failed"} /\
             peerConnection = out'[i].ch)
               => /\ Cardinality(Disconnections(out')) = 1
                  /\ connTask' = connTask
       /\ \A k \in ConnIds :
            (connTask[k] = "idle" /\ connTask'[k] # "idle")
               => (Called("connect")' \/ Called("start")')]_vars

\* C17: when connect() rejects, it rejects once, no track of a media
\* stream is live, no data channel or peer connection is open, the three
\* handles are null and isActive is false.
C17_FailedConnectLeavesNothing ==
    (\E i \in 1..Len(out) : out[i].kind = "throw" /\ out[i].type = "connect")
       => /\ Cardinality({i \in 1..Len(out) : out[i].kind = "throw"}) = 1
          /\ mediaStream = Null
          /\ dataChannel = Null
          /\ peerConnection = Null
          /\ ~isActive
          /\ \A k \in ConnIds :
               /\ msState[k] # "live"
               /\ dcState[k] \notin {"connecting", "open"}
               /\ pcState[k] \in {"none", "closed"}

\* session k was established after an earlier session was torn down
Reconnection(k) == \E j \in ConnIds : j < k /\ dcState[j] = "closed"

\* C18: in a session established by reconnection, a workflow transition
\* is only issued after the client has read the technician's state from
\* the backend in that session, and it is a transition from the stored
\* state.
C18_StateRefetchedOnReconnect ==
    [][\A c \in CallIds :
          (DoneStep(c) /\ handlers'[c].pc = "state" /\
           Reconnection(handlers'[c].ch))
             => /\ handlers'[c].ch \in fetched
                /\ <<workflow.state, WritesState[handlers'[c].name]>>
                      \in TransitionTable]_vars

\* the argument texts the model can send with a call
CallTexts == Deltas \cup {<<>>}

\* C19: from JOB_COMPLETED with next work order 42, some function call
\* the model can issue stores TRAVELING_TO_NEXT_JOB with current work
\* order 42.
C19_CanTravelToNextJob ==
    (workflow.state = "JOB_COMPLETED" /\ workflow.next = 42 /\ ChannelOpen)
       => \E n \in FunctionMapKeys, t \in CallTexts :
             /\ StoredAfter(n, t).state = "TRAVELING_TO_NEXT_JOB"
             /\ StoredAfter(n, t).current = 42

\* the responses that carry the technician's workflow state
StatePayloads == {"updateWorkflowState", "getTechnicianStatus"}

\* C20: a start_travel call for work order 7 dispatched while the
\* technician is CLOCKED_IN stores TRAVELING_TO_FIRST_JOB with current
\* work order 7, and the result sent for it carries the updated workflow
\* state.
C20_StartTravelScenario ==
    [][\A c \in CallIds :
          (handlers[c].name = "start_travel" /\ handlers[c].wo = 7)
             => /\ (handlers[c].pc = "state" /\ handlers'[c].pc = "aux" /\
                    workflow.state = "CLOCKED_IN")
                      => /\ workflow'.state = "TRAVELING_TO_FIRST_JOB"
                         /\ workflow'.current = 7
                /\ (handlers[c].pc = "aux" /\ handlers'[c].pc = "grace")
                      => \A i \in OutputsOf(out', c) :
                            out'[i].body \in StatePayloads]_vars

\* C21: the workflow state AT_JOBSITE is never stored with a null current
\* work order, also when the model's call omits work_order_id or passes a
\* value that is not a number.
C21_JobsiteHasWorkOrder ==
    workflow.state = "AT_JOBSITE" => workflow.current # Null


\* C22: after a response.done that is failed with rate_limit_exceeded,
\* the active-response flag stays true while the cooldown timer is pending,
\* whatever event arrives on the session, and it is false when the window
\* ends.
C22_FlagHeldThroughCooldown ==
    [][/\ (timers > 0 /\ timers' > 0 /\ hasActiveResponse /\
           dataChannel' = dataChannel)
             => hasActiveResponse'
       /\ (timers > 0 /\ timers' = 0) => ~hasActiveResponse']_vars


\* the server error events of o and the 'error' events of o
ServerErrors(o) ==
    {i \in 1..Len(o) : o[i].kind = "recv" /\ o[i].type = "error"}
ErrorEvents(o) ==
    {i \in 1..Len(o) : o[i].kind = "emit" /\ o[i].type = "error"}

\* C23: a server error event whose message contains "already has an
\* active response" emits no 'error' event and changes no field of the
\* agent, no pending task and no browser object; every other server error
\* event emits exactly one 'error' event; both leave the session open.
C23_DuplicateResponseErrorSwallowed ==
    [][\A i \in ServerErrors(out') :
          /\ UNCHANGED <<peerConnection, dataChannel, mediaStream, isActive,
                         rtcVars>>
          /\ IF out'[i].body = DuplicateResponse
             THEN /\ ErrorEvents(out') = {}
                  /\ UNCHANGED <<agentVars, taskVars>>
             ELSE Cardinality(ErrorEvents(out')) = 1]_vars

\* C23 witness: the duplicate-response error arrived on an open session
\* whose active-response flag is set.
C23_Witness ==
    /\ \E i \in ServerErrors(out) : out[i].body = DuplicateResponse
    /\ hasActiveResponse
    /\ ChannelOpen


\* the last step tore the session down: disconnect() / handleDisconnect(),
\* the catch of connect() or the catch of the onopen initialisation
TornDown ==
    \/ Emitted("disconnected")
    \/ \E i \in 1..Len(out) : out[i].kind = "throw" /\ out[i].type = "connect"
    \/ (Emitted("datachannel_open") /\ Emitted("error"))

\* C24: after disconnect() or a teardown on error the pending call record
\* and the argument accumulator are empty, so that no fragment of the
\* ended session can become part of a call of the next session.
C24_TeardownClearsCallState ==
    TornDown => /\ functionCall = NoCall
                /\ functionCallArgs = <<>>
                /\ functionCallArgumentsBuffer = <<>>


\* invocation a of playAudioDelta was made in this step
AudioStep(a) == audioTasks[a] = "idle" /\ audioTasks'[a] # "idle"

C26_AdvertisedToolsDispatch ==
    \A i \in 1..Len(out) :
        (out[i].kind = "catch" /\ out[i].type = "Unknown function")
           => out[i].body \notin AdvertisedTools


\* C27: after disconnect() was called while connect() was awaiting, and
\* while connect() has not been called again, the session is not Active
\* and no peer connection, microphone stream or data channel exists.
C27_DisconnectCancelsConnect ==
    cancelled # {} =>
        /\ ~isActive
        /\ peerConnection = Null /\ mediaStream = Null /\ dataChannel = Null
        /\ \A k \in ConnIds :
             /\ pcState[k] \in {"none", "closed"}
             /\ msState[k] # "live"
             /\ dcState[k] \notin {"connecting", "open"}


\* the rate-limit cooldown timer fired in this step
CooldownFires == timers' < timers

\* C28: when a cooldown timer fires while a response that was requested
\* or announced after the rate-limited response ended is in progress on
\* the agent's channel, in the session that started the timer or in a
\* later one, the active-response flag stays set.
C28_CooldownClearsOnlyItsResponse ==
    [][(CooldownFires /\ hasActiveResponse /\ dataChannel \in respOutstanding)
          => hasActiveResponse']_vars


\* invocation c is the only function call made so far, so the stored
\* record before it was the one the technician clocked in with
FirstCall(c) == c = 1 /\ \A d \in CallIds \ {c} : handlers[d].pc = "idle"

\* C29: when a call to start_travel, end_travel, start_job or end_job is
\* answered with an error result, the stored workflow record is the one
\* from before the call, also when the error is the failure of the
\* handler's second backend request.
C29_ErrorLeavesStateUnchanged ==
    [][\A c \in CallIds :
          (FirstCall(c) /\ handlers[c].name \in DOMAIN WritesState /\
           OneErrorOutput(out', c))
             => workflow' = ClockedIn]_vars


\* C30: while the session is connected, the active-response flag is only
\* set when something is pending that will clear it: a response.create
\* the server has not answered, a response it has announced and not
\* ended, or a cooldown timer.  In particular the flag is not left set
\* when the server has answered the client's response.create with an
\* error event.
C30_FlagNeverStuck ==
    (ChannelOpen /\ hasActiveResponse)
       => (asked > 0 \/ running > 0 \/ timers > 0)

====
